---- MODULE Spec2Model ----
(***************************************************************************)
(* Model of the canvas export pipeline of video-sorcerer                   *)
(* (src/components/video-edit.tsx, VideoEditor.exportVideo) together with  *)
(* the React state it closes over, the filter worker of                    *)
(* src/lib/canvas.worker.ts and the browser objects it drives (the cloned  *)
(* video element, MediaRecorder, the Web Audio nodes).                     *)
(*                                                                         *)
(* Numbers.  Durations are rationals durNum / DurDen seconds, fps is one   *)
(* of the values of the FPS picker, and every quotient the code computes   *)
(* (i / fps, (i + 1) / totalFrames * 100, height * aspect) is kept as an   *)
(* exact fraction and compared by cross-multiplication.  The one place     *)
(* where IEEE rounding can change a result, Math.round on an exact tie, is *)
(* a choice of the environment (tieUp).                                    *)
(*                                                                         *)
(* Control.  exportVideo is an async function: pc is the await it is       *)
(* suspended at.  The pc values of SyncPcs are positions inside one        *)
(* uninterrupted turn of the event loop: while pc is one of them no other  *)
(* handler runs.                                                           *)
(*                                                                         *)
(* Environment.  An event the call awaits ('seeked', the worker's reply,   *)
(* the recorder's onstop) is delivered or is lost for good (lost).  Spec   *)
(* follows the user's inputs and the whole call; SpecFrames follows the    *)
(* frame loop on longer sources, SpecTimeline the frame loop against the   *)
(* wall clock the audio plays by (elapsed), SpecPreview the frame loop     *)
(* while the preview is played, paused and re-sourced, SpecLive the whole  *)
(* call when every awaited event is delivered, under weak fairness.        *)
(*                                                                         *)
(* The ffmpeg revision.  video-edit.tsx also holds the revision of the     *)
(* component that posts the whole file to src/lib/ffmpeg.worker.ts.  Its   *)
(* state (processing, progress, filteredVideoUrl), the worker's listener   *)
(* invocations and the files input.mp4 and output.mp4 are followed by      *)
(* SpecFfmpeg; videoFile and filter are the state both revisions have.     *)
(***************************************************************************)
EXTENDS Integers, Sequences, FiniteSets, TLC

\* ------------------------------------------------------------------ bounds
\* Durations are multiples of 1 / DurDen seconds.
DurDen == 60
\* Longest source: MaxDurNum / DurDen seconds.
MaxDurNum == 1
\* Exports started in one behaviour.
MaxExports == 1
\* Longest source of SpecFrames: MaxLoopDur / DurDen seconds.
MaxLoopDur == 5
\* User inputs (uploads and changes of the filter, resolution, FPS and format
\* pickers) in one behaviour.
MaxInputs == 2
\* Longest time the audio source is followed: MaxElapsed / DurDen seconds.
MaxElapsed == 3
\* Apply Filter clicks and uploads in one behaviour of the ffmpeg revision,
\* and ffmpeg 'progress' events during one exec.
MaxJobs == 2
MaxUploads == 2
MaxProgressEvents == 1

\* --------------------------------------------------------- program values
\* HTMLMediaElement.duration before the metadata is known.
NaN == -1

Filters == {"none", "sepia", "grayscale", "invert"}
Resolutions == {"1080p", "720p", "540p"}
Formats == {"webm", "mp4"}
FpsOptions == {30, 60, 120}

\* Natural sizes a source can report: 16:9, a size whose scaled width is an
\* exact tie (720 * 853 / 480 = 1279.5), and 0x0 (no video track decoded).
SourceDims == {<<16, 9>>, <<853, 480>>, <<0, 0>>}

\* exportProgress === null
NullProgress == <<>>

\* No message in flight.
NoFrame ==
    [index |-> -1, filter |-> "none", width |-> 0, height |-> 0, file |-> 0,
     still |-> TRUE, filtered |-> FALSE]

\* ---------------------------------------------------------- pure functions
\* Math.ceil(n / d) for n >= 0, d > 0
MathCeil(n, d) == (n + d - 1) \div d

\* Mutant of MathRound: the quotient is truncated (| 0, Math.floor).
MathRoundTruncates(n, d, tieUp) == n \div d

\* Math.round(n / d) for n >= 0, d > 0: the nearest integer, a tie going up
\* when the product the code rounds is exactly representable (tieUp), down
\* when the floating-point product falls just below the tie.
MathRound(n, d, tieUp) ==
    LET q == n \div d
        r == n % d
    IN  IF 2 * r < d THEN q
        ELSE IF 2 * r > d THEN q + 1
        ELSE IF tieUp THEN q + 1 ELSE q

CanvasHeight(res) ==
    CASE res = "1080p" -> 1080
      [] res = "720p" -> 720
      [] res = "540p" -> 540
      [] OTHER -> 0

\* videoWidth / videoHeight || 16 / 9, as a fraction <<num, den>>: 0 / h is 0
\* and 0 / 0 is NaN, both falsy.
AspectRatio(vw, vh) == IF vw = 0 THEN <<16, 9>> ELSE <<vw, vh>>

getCanvasDimensions(res, vw, vh, tieUp) ==
    LET a == AspectRatio(vw, vh)
        height == CanvasHeight(res)
    IN  [width |-> MathRound(height * a[1], a[2], tieUp), height |-> height]

\* Mutant of TotalFrames: Math.floor(duration * fps) + 1.
TotalFramesFloorPlusOne(duration, f) ==
    IF duration = NaN THEN NaN ELSE (duration * f) \div DurDen + 1

\* Math.ceil(duration * fps); NaN when the duration is NaN
TotalFrames(duration, f) ==
    IF duration = NaN THEN NaN ELSE MathCeil(duration * f, DurDen)

\* Mutant of LoopCond: the loop does not test its index.
LoopCondIgnoresIndex(idx, total) == total # NaN

\* i < totalFrames (false for NaN)
LoopCond(idx, total) == total # NaN /\ idx < total

\* currentTime > duration, with currentTime = i * (1 / fps) (false for NaN)
PastEnd(idx, f, duration) == duration # NaN /\ idx * DurDen > duration * f

\* Mutant of FrameProgress: the percentage of i + 1 frames out of the
\* totalFrames - 1 intervals between them.
FrameProgressOverIntervals(idx, total) ==
    <<(idx + 1) * 100, IF total > 1 THEN total - 1 ELSE 1>>

\* ((i + 1) / totalFrames) * 100 as the fraction <<num, den>>
FrameProgress(idx, total) == <<(idx + 1) * 100, total>>

Digit(d) ==
    CASE d = 0 -> "0" [] d = 1 -> "1" [] d = 2 -> "2" [] d = 3 -> "3"
      [] d = 4 -> "4" [] d = 5 -> "5" [] d = 6 -> "6" [] d = 7 -> "7"
      [] d = 8 -> "8" [] d = 9 -> "9"

\* String(n) of a template literal, n >= 0
RECURSIVE NumberToString(_)
NumberToString(n) ==
    IF n < 10 THEN Digit(n) ELSE NumberToString(n \div 10) \o Digit(n % 10)

FilterPrefix(f) == IF f # "none" THEN f \o "-" ELSE ""

\* Mutant of DownloadName: the extension is always webm.
DownloadNameAlwaysWebm(f, res, rate, fmt) ==
    FilterPrefix(f) \o res \o "-" \o NumberToString(rate) \o "fps-video.webm"

DownloadName(f, res, rate, fmt) ==
    FilterPrefix(f) \o res \o "-" \o NumberToString(rate) \o "fps-video." \o fmt

RecorderMimeType(fmt) ==
    IF fmt = "mp4" THEN "video/mp4;codecs=avc1,mp4a.40.2" ELSE "video/webm;codecs=vp9"

BlobType(fmt) == IF fmt = "mp4" THEN "video/mp4" ELSE "video/webm"

\* The filter worker's handler: the frame it was sent, drawn through the
\* canvas filter it was asked for.
WorkerFilter(msg) == [msg EXCEPT !.filtered = TRUE]

\* ------------------------------------------------------------------- state
VARIABLES
    \* React state and refs of VideoEditor
    videoFile,        \* 0 = null, else the number of the uploaded file
    src,              \* what the uploaded file holds: duration and size
    loaded,           \* loadedmetadata was delivered for the current file
    filter, resolution, fps, format,
    videoWidth, videoHeight,
    exporting, exportProgress,
    mounted,          \* the component is mounted (its refs are non-null)
    exportWorkerRef,  \* exportWorkerRef.current: "null" or "worker"
    inputs,           \* uploads and picker changes so far
    previewPlaying,   \* the preview video was set playing
    \* the running exportVideo call: its closure and locals
    pc, job, i, totalFrames,
    worker,           \* "none", "running", "terminated"
    workerIn,         \* request posted to the worker, not yet handled
    workerOut,        \* reply posted by the worker, not yet received
    recorder,         \* "none", "recording", "stopping", "inactive"
    audioContext,     \* "null", "running", "closed"
    audioSourceNode,  \* "null", "created", "started", "stopped"
    audioStream,      \* audioStream !== null
    tracks,           \* kinds of track added to combinedStream
    videoClone,       \* "none", "created", "removed"
    \* what the call has done so far (observations)
    emitted,          \* numeric values passed to setExportProgress
    seeks,            \* frame indices whose seek was requested
    broke,            \* the loop was left through its break
    pushed,           \* frames put on the captured output canvas
    audioError,       \* step of the audio extraction that threw, or "none"
    thrown,           \* what reached the outer catch, or "none"
    outcome,          \* how the call ended: "none" while it has not
    download,         \* downloadRef.current.download after click(), or ""
    artifactUrl,      \* the recording's object URL exists
    seeksAtUnmount,   \* Len(seeks) when the component unmounted, or -1
    runs,             \* exportVideo calls started
    \* the environment
    elapsed,          \* 1 / DurDen seconds the audio source has been playing
    lost,             \* the event the call awaits that will never be
                      \* delivered: "none", "seeked", "reply", "onstop"
    seekedQueued,     \* the export's element has a seek under way whose
                      \* 'seeked' event is still to be dispatched
    seekListeners,    \* 'seeked' listeners registered on the export's element
    \* the ffmpeg revision of the component (useState) and its worker
    processing,       \* processing
    progress,         \* progress: NoProgress or a number
    filteredVideoUrl, \* filteredVideoUrl: NoUrl or the result it names
    readers,          \* FileReaders that have not fired onload yet
    workerQueue,      \* messages posted to the ffmpeg worker, not yet handled
    opQueue,          \* invocations of the worker's listener, each at the
                      \* ffmpeg call it awaits, in the order of the calls
    ffmpegLoaded,     \* ffmpeg.loaded
    inputMp4,         \* the file whose bytes are in input.mp4 (0: absent)
    outputMp4,        \* what output.mp4 was made from (NoOutput: absent)
    progressListeners,\* callbacks registered with ffmpeg.on('progress')
    mainQueue,        \* messages posted to the main thread, not yet handled
    jobsStarted,      \* applyFilterEffect calls that set processing
    uploads           \* files picked in the ffmpeg revision

\* progress === null in the ffmpeg revision (its numbers are 0 and above).
NoProgress == -1

\* filteredVideoUrl === null; no output.mp4 in the worker's file system.
NoUrl == [job |-> 0, file |-> 0, filter |-> "none"]
NoOutput == [file |-> 0, filter |-> "none"]

\* The ffmpeg revision of the component right after its mount effect: the
\* worker is created and nothing has been posted.
FfmpegIdle ==
    /\ processing = FALSE
    /\ progress = NoProgress
    /\ filteredVideoUrl = NoUrl
    /\ readers = <<>>
    /\ workerQueue = <<>>
    /\ opQueue = <<>>
    /\ ffmpegLoaded = FALSE
    /\ inputMp4 = 0
    /\ outputMp4 = NoOutput
    /\ progressListeners = 0
    /\ mainQueue = <<>>
    /\ jobsStarted = 0
    /\ uploads = 0

uiVars == <<videoFile, src, loaded, filter, resolution, fps, format,
            videoWidth, videoHeight, mounted, exportWorkerRef, inputs,
            previewPlaying>>
jobVars == <<pc, job, i, totalFrames, worker, workerIn, workerOut, recorder,
             audioContext, audioSourceNode, audioStream, tracks, videoClone>>
obsVars == <<emitted, seeks, broke, pushed, audioError, thrown, outcome, download,
             artifactUrl, runs>>
envVars == <<elapsed, lost, seekedQueued, seekListeners>>
ffVars == <<processing, progress, filteredVideoUrl, readers, workerQueue, opQueue,
            ffmpegLoaded, inputMp4, outputMp4, progressListeners, mainQueue,
            jobsStarted, uploads>>
vars == <<uiVars, exporting, exportProgress, jobVars, obsVars, seeksAtUnmount, envVars,
          ffVars>>

\* Positions inside one uninterrupted turn: no other handler runs there.
SyncPcs == {"setup", "looptop", "finish", "catch", "finally"}

\* A file the video element cannot read: its metadata never loads.
Unreadable == [dur |-> NaN, dims |-> <<0, 0>>]

\* The files a user can pick.
Sources ==
    {Unreadable} \cup
    [dur : 0 .. MaxDurNum, dims : SourceDims]

NoJob ==
    [filter |-> "none", resolution |-> "720p", fps |-> 30, format |-> "webm",
     videoWidth |-> 16, videoHeight |-> 9, width |-> 0, height |-> 0,
     duration |-> NaN, url |-> 0]

\* videoRef.current.duration
VideoDuration == IF loaded THEN src.dur ELSE NaN

\* downloadRef.current !== null
DownloadRefSet == mounted

Init ==
    /\ videoFile = 0
    /\ src = Unreadable
    /\ loaded = FALSE
    /\ filter = "none"
    /\ resolution = "720p"
    /\ fps = 30
    /\ format = "webm"
    /\ videoWidth = 16
    /\ videoHeight = 9
    /\ exporting = FALSE
    /\ exportProgress = NullProgress
    /\ mounted = TRUE
    /\ exportWorkerRef = "null"
    /\ inputs = 0
    /\ previewPlaying = FALSE
    /\ pc = "idle"
    /\ job = NoJob
    /\ i = 0
    /\ totalFrames = 0
    /\ worker = "none"
    /\ workerIn = NoFrame
    /\ workerOut = NoFrame
    /\ recorder = "none"
    /\ audioContext = "null"
    /\ audioSourceNode = "null"
    /\ audioStream = FALSE
    /\ tracks = {}
    /\ videoClone = "none"
    /\ emitted = <<>>
    /\ seeks = <<>>
    /\ broke = FALSE
    /\ pushed = <<>>
    /\ audioError = "none"
    /\ thrown = "none"
    /\ outcome = "none"
    /\ download = ""
    /\ artifactUrl = FALSE
    /\ seeksAtUnmount = -1
    /\ runs = 0
    /\ elapsed = 0
    /\ lost = "none"
    /\ seekedQueued = FALSE
    /\ seekListeners = 0
    /\ FfmpegIdle

\* --------------------------------------------------------------- UI events
\* handleUpload: a file was chosen in the file input.
handleUpload(file) ==
    /\ mounted
    /\ pc \notin SyncPcs
    /\ inputs < MaxInputs
    /\ inputs' = inputs + 1
    /\ videoFile' = videoFile + 1
    /\ src' = file
    /\ loaded' = FALSE
    /\ previewPlaying' = FALSE
    /\ UNCHANGED <<filter, resolution, fps, format, videoWidth, videoHeight,
                   mounted, exportWorkerRef>>
    /\ UNCHANGED <<exporting, exportProgress, jobVars, obsVars, seeksAtUnmount, envVars, ffVars>>

\* handleVideoLoaded: onLoadedMetadata of the preview video element.
handleVideoLoaded ==
    /\ mounted
    /\ pc \notin SyncPcs
    /\ videoFile # 0
    /\ ~loaded
    /\ src # Unreadable
    /\ loaded' = TRUE
    /\ videoWidth' = src.dims[1]
    /\ videoHeight' = src.dims[2]
    /\ UNCHANGED <<videoFile, src, filter, resolution, fps, format, mounted,
                   exportWorkerRef, inputs, previewPlaying>>
    /\ UNCHANGED <<exporting, exportProgress, jobVars, obsVars, seeksAtUnmount, envVars, ffVars>>

\* The pickers are rendered once a file is chosen.
CanPick == mounted /\ pc \notin SyncPcs /\ videoFile # 0 /\ inputs < MaxInputs

setFilter(f) ==
    /\ CanPick
    /\ f # filter
    /\ filter' = f
    /\ inputs' = inputs + 1
    /\ UNCHANGED <<videoFile, src, loaded, resolution, fps, format, videoWidth,
                   videoHeight, mounted, exportWorkerRef, previewPlaying>>
    /\ UNCHANGED <<exporting, exportProgress, jobVars, obsVars, seeksAtUnmount, envVars, ffVars>>

setResolution(r) ==
    /\ CanPick
    /\ r # resolution
    /\ resolution' = r
    /\ inputs' = inputs + 1
    /\ UNCHANGED <<videoFile, src, loaded, filter, fps, format, videoWidth,
                   videoHeight, mounted, exportWorkerRef, previewPlaying>>
    /\ UNCHANGED <<exporting, exportProgress, jobVars, obsVars, seeksAtUnmount, envVars, ffVars>>

setFps(n) ==
    /\ CanPick
    /\ n # fps
    /\ fps' = n
    /\ inputs' = inputs + 1
    /\ UNCHANGED <<videoFile, src, loaded, filter, resolution, format, videoWidth,
                   videoHeight, mounted, exportWorkerRef, previewPlaying>>
    /\ UNCHANGED <<exporting, exportProgress, jobVars, obsVars, seeksAtUnmount, envVars, ffVars>>

setFormat(m) ==
    /\ CanPick
    /\ m # format
    /\ format' = m
    /\ inputs' = inputs + 1
    /\ UNCHANGED <<videoFile, src, loaded, filter, resolution, fps, videoWidth,
                   videoHeight, mounted, exportWorkerRef, previewPlaying>>
    /\ UNCHANGED <<exporting, exportProgress, jobVars, obsVars, seeksAtUnmount, envVars, ffVars>>

\* Mutant of Unmount: the cleanup terminates the worker of the running
\* export (as if exportWorkerRef.current had been assigned it).
UnmountTerminatesWorker ==
    /\ mounted
    /\ pc \notin SyncPcs
    /\ mounted' = FALSE
    /\ worker' = IF worker = "running" THEN "terminated" ELSE worker
    /\ exportWorkerRef' = "null"
    /\ seeksAtUnmount' = Len(seeks)
    /\ UNCHANGED <<videoFile, src, loaded, filter, resolution, fps, format,
                   videoWidth, videoHeight, inputs, previewPlaying>>
    /\ UNCHANGED <<exporting, exportProgress, obsVars, envVars, ffVars>>
    /\ UNCHANGED <<pc, job, i, totalFrames, workerIn, workerOut, recorder,
                   audioContext, audioSourceNode, audioStream, tracks, videoClone>>

\* The cleanup of the mount effect: the component unmounts.  It terminates
\* the worker exportWorkerRef holds; the refs of the rendered elements
\* become null.
Unmount ==
    /\ mounted
    /\ pc \notin SyncPcs
    /\ mounted' = FALSE
    /\ worker' = IF exportWorkerRef # "null" THEN "terminated" ELSE worker
    /\ exportWorkerRef' = "null"
    /\ seeksAtUnmount' = Len(seeks)
    /\ UNCHANGED <<videoFile, src, loaded, filter, resolution, fps, format,
                   videoWidth, videoHeight, inputs, previewPlaying>>
    /\ UNCHANGED <<exporting, exportProgress, obsVars, envVars, ffVars>>
    /\ UNCHANGED <<pc, job, i, totalFrames, workerIn, workerOut, recorder,
                   audioContext, audioSourceNode, audioStream, tracks, videoClone>>

\* togglePlayPreview: the Play / Pause button under the preview, which is not
\* disabled during an export.  It plays or pauses videoRef.current.
togglePlayPreview ==
    /\ mounted
    /\ pc \notin SyncPcs
    /\ videoFile # 0
    /\ previewPlaying' = ~previewPlaying
    /\ UNCHANGED <<videoFile, src, loaded, filter, resolution, fps, format,
                   videoWidth, videoHeight, mounted, exportWorkerRef, inputs>>
    /\ UNCHANGED <<exporting, exportProgress, jobVars, obsVars, seeksAtUnmount,
                   envVars, ffVars>>

\* onEnded of the preview video: it played to its end.
PreviewEnded ==
    /\ mounted
    /\ pc \notin SyncPcs
    /\ previewPlaying
    /\ loaded
    /\ previewPlaying' = FALSE
    /\ UNCHANGED <<videoFile, src, loaded, filter, resolution, fps, format,
                   videoWidth, videoHeight, mounted, exportWorkerRef, inputs>>
    /\ UNCHANGED <<exporting, exportProgress, jobVars, obsVars, seeksAtUnmount,
                   envVars, ffVars>>

\* ------------------------------------------------------------ exportVideo
\* Mutant of ExportHandle: the loop seeks the preview element itself
\* (const video = videoRef.current).
ExportHandleIsVideoRef == "videoRef"

\* The video element the frame loop seeks and draws: the element created by
\* the call (document.createElement('video')).
ExportHandle == "videoClone"

\* What a video element shows.  videoRef is the rendered preview element:
\* its src is the URL of the current videoFile and togglePlayPreview plays
\* it.  videoClone was given the URL of the file of the click and is never
\* played.
ElementOf(h) ==
    IF h = "videoRef"
    THEN [src |-> videoFile, playing |-> previewPlaying]
    ELSE [src |-> job.url, playing |-> FALSE]

\* The steps of the audio extraction that can throw after decodeAudioData.
WiringSteps == {"source", "destination", "connect"}

\* Mutant of ButtonDisabled: the Export Video button is never disabled.
ButtonNeverDisabled == FALSE

\* disabled={exporting} of the Export Video button, the one caller of
\* exportVideo.  The state set in the click's synchronous part is rendered
\* before the next event is dispatched.
ButtonDisabled == exporting

\* Click on Export Video (the button is disabled while exporting): the call
\* up to its first await.  ctx2d: both getContext('2d') calls return a
\* context; audioCtxOk: new AudioContext() does not throw.
ExportStart(ctx2d, audioCtxOk, tieUp) ==
    /\ mounted
    /\ pc \notin SyncPcs
    /\ ~ButtonDisabled
    /\ videoFile # 0
    /\ runs < MaxExports
    /\ runs' = runs + 1
    /\ exporting' = TRUE
    /\ exportProgress' = <<0, 1>>
    /\ emitted' = <<<<0, 1>>>>
    /\ worker' = "running"
    /\ job' = LET d == getCanvasDimensions(resolution, videoWidth, videoHeight, tieUp)
              IN  [filter |-> filter, resolution |-> resolution, fps |-> fps,
                   format |-> format, videoWidth |-> videoWidth,
                   videoHeight |-> videoHeight, width |-> d.width,
                   height |-> d.height,
                   duration |-> VideoDuration, url |-> videoFile]
    /\ videoClone' = "created"
    /\ i' = 0
    /\ totalFrames' = 0
    /\ workerIn' = NoFrame
    /\ workerOut' = NoFrame
    /\ recorder' = "none"
    /\ audioSourceNode' = "null"
    /\ audioStream' = FALSE
    /\ tracks' = {}
    /\ seeks' = <<>>
    /\ broke' = FALSE
    /\ pushed' = <<>>
    /\ thrown' = "none"
    /\ download' = ""
    /\ artifactUrl' = FALSE
    /\ IF ~ctx2d \/ videoFile = 0
       THEN \* if (!tempCtx) return; if (!outputCtx) return; if (!videoUrl) return;
            /\ outcome' = "returned"
            /\ audioContext' = "null"
            /\ audioError' = "none"
            /\ pc' = "finally"
       ELSE /\ outcome' = "none"
            /\ IF audioCtxOk
               THEN /\ audioContext' = "running"
                    /\ audioError' = "none"
                    /\ pc' = "fetch"
               ELSE /\ audioContext' = "null"
                    /\ audioError' = "context"
                    /\ pc' = "setup"
    /\ elapsed' = 0
    /\ lost' = "none"
    /\ seekedQueued' = FALSE
    /\ seekListeners' = 0
    /\ UNCHANGED ffVars
    /\ UNCHANGED <<uiVars, seeksAtUnmount>>

\* await fetch(videoUrl) resolves.
FetchDone ==
    /\ pc = "fetch"
    /\ pc' = "arrayBuffer"
    /\ UNCHANGED <<uiVars, exporting, exportProgress, obsVars, seeksAtUnmount, envVars, ffVars>>
    /\ UNCHANGED <<job, i, totalFrames, worker, workerIn, workerOut, recorder,
                   audioContext, audioSourceNode, audioStream, tracks, videoClone>>

\* await response.arrayBuffer() resolves.
BufferDone ==
    /\ pc = "arrayBuffer"
    /\ pc' = "decode"
    /\ UNCHANGED <<uiVars, exporting, exportProgress, obsVars, seeksAtUnmount, envVars, ffVars>>
    /\ UNCHANGED <<job, i, totalFrames, worker, workerIn, workerOut, recorder,
                   audioContext, audioSourceNode, audioStream, tracks, videoClone>>

\* await decodeAudioData(arrayBuffer) resolves (the file holds an audio track
\* the browser decodes), then the nodes are wired; w is the wiring step that
\* throws, or "none".
DecodeDone(w) ==
    /\ pc = "decode"
    /\ audioSourceNode' = IF w = "source" THEN "null" ELSE "created"
    /\ audioStream' = (w = "none")
    /\ audioError' = w
    /\ pc' = "setup"
    /\ UNCHANGED <<uiVars, exporting, exportProgress, seeksAtUnmount, envVars, ffVars>>
    /\ UNCHANGED <<job, i, totalFrames, worker, workerIn, workerOut, recorder,
                   audioContext, tracks, videoClone>>
    /\ UNCHANGED <<emitted, seeks, broke, pushed, thrown, outcome, download,
                   artifactUrl, runs>>

\* Mutant of AudioRejected: the rejection is not caught by the inner try and
\* reaches the outer catch.
AudioRejectedFatal ==
    /\ pc \in {"fetch", "arrayBuffer", "decode"}
    /\ audioError' = pc
    /\ thrown' = pc
    /\ pc' = "catch"
    /\ UNCHANGED <<uiVars, exporting, exportProgress, seeksAtUnmount, envVars, ffVars>>
    /\ UNCHANGED <<job, i, totalFrames, worker, workerIn, workerOut, recorder,
                   audioContext, audioSourceNode, audioStream, tracks, videoClone>>
    /\ UNCHANGED <<emitted, seeks, broke, pushed, outcome, download,
                   artifactUrl, runs>>

\* One of the three awaits of the audio extraction rejects: the inner catch
\* logs a warning and the call goes on.
AudioRejected ==
    /\ pc \in {"fetch", "arrayBuffer", "decode"}
    /\ audioError' = pc
    /\ pc' = "setup"
    /\ UNCHANGED <<uiVars, exporting, exportProgress, seeksAtUnmount, envVars, ffVars>>
    /\ UNCHANGED <<job, i, totalFrames, worker, workerIn, workerOut, recorder,
                   audioContext, audioSourceNode, audioStream, tracks, videoClone>>
    /\ UNCHANGED <<emitted, seeks, broke, pushed, thrown, outcome, download,
                   artifactUrl, runs>>

\* Mutant of RecordSetup: decodeAudioData is not awaited; the recorder is set
\* up while the decode is pending.
RecordSetupBeforeDecode(supported) ==
    /\ pc \in {"setup", "decode"}
    /\ tracks' = {"video"} \cup (IF audioStream THEN {"audio"} ELSE {})
    /\ IF ~supported
       THEN /\ thrown' = "recorderCtor"
            /\ pc' = "catch"
            /\ UNCHANGED <<recorder, audioSourceNode, totalFrames, i>>
       ELSE /\ recorder' = "recording"
            /\ audioSourceNode' =
                   IF audioSourceNode # "null" THEN "started" ELSE audioSourceNode
            /\ totalFrames' = TotalFrames(job.duration, job.fps)
            /\ i' = 0
            /\ pc' = "looptop"
            /\ UNCHANGED thrown
    /\ UNCHANGED <<uiVars, exporting, exportProgress, seeksAtUnmount, envVars, ffVars>>
    /\ UNCHANGED <<job, worker, workerIn, workerOut, audioContext, audioStream,
                   videoClone>>
    /\ UNCHANGED <<emitted, seeks, broke, pushed, audioError, outcome, download,
                   artifactUrl, runs>>

\* captureStream, the combined stream, new MediaRecorder (supported: the
\* mime type is one the browser records), start of recorder and audio.
RecordSetup(supported) ==
    /\ pc = "setup"
    /\ tracks' = {"video"} \cup (IF audioStream THEN {"audio"} ELSE {})
    /\ IF ~supported
       THEN /\ thrown' = "recorderCtor"
            /\ pc' = "catch"
            /\ UNCHANGED <<recorder, audioSourceNode, totalFrames, i>>
       ELSE /\ recorder' = "recording"
            /\ audioSourceNode' =
                   IF audioSourceNode # "null" THEN "started" ELSE audioSourceNode
            /\ totalFrames' = TotalFrames(job.duration, job.fps)
            /\ i' = 0
            /\ pc' = "looptop"
            /\ UNCHANGED thrown
    /\ UNCHANGED <<uiVars, exporting, exportProgress, seeksAtUnmount, envVars, ffVars>>
    /\ UNCHANGED <<job, worker, workerIn, workerOut, audioContext, audioStream,
                   videoClone>>
    /\ UNCHANGED <<emitted, seeks, broke, pushed, audioError, outcome, download,
                   artifactUrl, runs>>

\* Mutant of LoopTop: the seek is requested in this turn and the 'seeked'
\* listener is registered in a later one.
LoopTopListensLater ==
    /\ pc = "looptop"
    /\ IF LoopCond(i, totalFrames)
       THEN IF PastEnd(i, job.fps, job.duration)
            THEN /\ broke' = TRUE
                 /\ pc' = "finish"
                 /\ UNCHANGED seeks
            ELSE /\ seeks' = Append(seeks, i)
                 /\ pc' = "seeking"
                 /\ UNCHANGED broke
       ELSE /\ pc' = "finish"
            /\ UNCHANGED <<seeks, broke>>
    /\ IF pc' = "seeking"
       THEN \* videoClone.currentTime = currentTime
            /\ seekedQueued' = TRUE
            /\ UNCHANGED seekListeners
       ELSE UNCHANGED <<seekedQueued, seekListeners>>
    /\ UNCHANGED <<uiVars, exporting, exportProgress, seeksAtUnmount, elapsed, lost,
                   ffVars>>
    /\ UNCHANGED <<job, i, totalFrames, worker, workerIn, workerOut, recorder,
                   audioContext, audioSourceNode, audioStream, tracks, videoClone>>
    /\ UNCHANGED <<emitted, pushed, audioError, thrown, outcome, download,
                   artifactUrl, runs>>

\* The head of the frame loop: the loop test, the break, and the seek.
LoopTop ==
    /\ pc = "looptop"
    /\ IF LoopCond(i, totalFrames)
       THEN IF PastEnd(i, job.fps, job.duration)
            THEN /\ broke' = TRUE
                 /\ pc' = "finish"
                 /\ UNCHANGED seeks
            ELSE /\ seeks' = Append(seeks, i)
                 /\ pc' = "seeking"
                 /\ UNCHANGED broke
       ELSE /\ pc' = "finish"
            /\ UNCHANGED <<seeks, broke>>
    /\ IF pc' = "seeking"
       THEN \* videoClone.currentTime = currentTime; addEventListener('seeked')
            /\ seekedQueued' = TRUE
            /\ seekListeners' = seekListeners + 1
       ELSE UNCHANGED <<seekedQueued, seekListeners>>
    /\ UNCHANGED <<uiVars, exporting, exportProgress, seeksAtUnmount, elapsed, lost,
                   ffVars>>
    /\ UNCHANGED <<job, i, totalFrames, worker, workerIn, workerOut, recorder,
                   audioContext, audioSourceNode, audioStream, tracks, videoClone>>
    /\ UNCHANGED <<emitted, pushed, audioError, thrown, outcome, download,
                   artifactUrl, runs>>

\* Mutant of Seeked: the frame is posted and the reply is not awaited; the
\* loop goes on to its timer.
SeekedWithoutAwait ==
    /\ pc = "seeking"
    /\ lost # "seeked"
    /\ seekedQueued
    /\ seekListeners >= 1
    /\ seekedQueued' = FALSE
    /\ seekListeners' = seekListeners - 1
    /\ workerIn' = IF worker = "running"
                   THEN [index |-> i, filter |-> job.filter, width |-> job.width,
                         height |-> job.height,
                         file |-> ElementOf(ExportHandle).src,
                         still |-> ~ElementOf(ExportHandle).playing,
                         filtered |-> FALSE]
                   ELSE workerIn
    /\ pc' = "yield"
    /\ UNCHANGED <<uiVars, exporting, exportProgress, obsVars, seeksAtUnmount, elapsed,
                   lost, ffVars>>
    /\ UNCHANGED <<job, i, totalFrames, worker, workerOut, recorder,
                   audioContext, audioSourceNode, audioStream, tracks, videoClone>>

\* Mutant of Seeked: the message is built from the component's current
\* filter state (as through a ref), not from the filter of the click.
SeekedReadsPicker ==
    /\ pc = "seeking"
    /\ lost # "seeked"
    /\ seekedQueued
    /\ seekListeners >= 1
    /\ seekedQueued' = FALSE
    /\ seekListeners' = seekListeners - 1
    /\ workerIn' = IF worker = "running"
                   THEN [index |-> i, filter |-> filter, width |-> job.width,
                         height |-> job.height,
                         file |-> ElementOf(ExportHandle).src,
                         still |-> ~ElementOf(ExportHandle).playing,
                         filtered |-> FALSE]
                   ELSE workerIn
    /\ pc' = "filtering"
    /\ UNCHANGED <<uiVars, exporting, exportProgress, obsVars, seeksAtUnmount, elapsed,
                   lost, ffVars>>
    /\ UNCHANGED <<job, i, totalFrames, worker, workerOut, recorder,
                   audioContext, audioSourceNode, audioStream, tracks, videoClone>>

\* 'seeked' is delivered: the frame is drawn, read back and posted to the
\* worker.
Seeked ==
    /\ pc = "seeking"
    /\ lost # "seeked"
    /\ seekedQueued
    /\ seekListeners >= 1
    /\ seekedQueued' = FALSE
    /\ seekListeners' = seekListeners - 1
    /\ workerIn' = IF worker = "running"
                   THEN [index |-> i, filter |-> job.filter, width |-> job.width,
                         height |-> job.height,
                         file |-> ElementOf(ExportHandle).src,
                         still |-> ~ElementOf(ExportHandle).playing,
                         filtered |-> FALSE]
                   ELSE workerIn
    /\ pc' = "filtering"
    /\ UNCHANGED <<uiVars, exporting, exportProgress, obsVars, seeksAtUnmount, elapsed,
                   lost, ffVars>>
    /\ UNCHANGED <<job, i, totalFrames, worker, workerOut, recorder,
                   audioContext, audioSourceNode, audioStream, tracks, videoClone>>

\* self.onmessage of the filter worker.
WorkerHandle ==
    /\ worker = "running"
    /\ workerIn # NoFrame
    /\ workerOut' = WorkerFilter(workerIn)
    /\ workerIn' = NoFrame
    /\ UNCHANGED <<uiVars, exporting, exportProgress, obsVars, seeksAtUnmount, envVars, ffVars>>
    /\ UNCHANGED <<pc, job, i, totalFrames, worker, recorder,
                   audioContext, audioSourceNode, audioStream, tracks, videoClone>>

\* worker.onmessage on the main thread: the filtered frame is put on the
\* captured canvas and the progress is set.
WorkerReply ==
    /\ pc = "filtering"
    /\ workerOut # NoFrame
    /\ pushed' = Append(pushed, workerOut)
    /\ workerOut' = NoFrame
    /\ exportProgress' = FrameProgress(i, totalFrames)
    /\ emitted' = Append(emitted, FrameProgress(i, totalFrames))
    /\ pc' = "yield"
    /\ UNCHANGED <<uiVars, exporting, seeksAtUnmount, envVars, ffVars>>
    /\ UNCHANGED <<job, i, totalFrames, worker, workerIn, recorder,
                   audioContext, audioSourceNode, audioStream, tracks, videoClone>>
    /\ UNCHANGED <<seeks, broke, audioError, thrown, outcome, download,
                   artifactUrl, runs>>

\* Mutant of NextIndex: the index is not advanced.
NextIndexStuck(idx) == idx

\* i++
NextIndex(idx) == idx + 1

\* The setTimeout(resolve, 0) at the end of an iteration fires; the loop
\* goes to its next index.
TimerFired ==
    /\ pc = "yield"
    /\ i' = NextIndex(i)
    /\ pc' = "looptop"
    /\ UNCHANGED <<uiVars, exporting, exportProgress, obsVars, seeksAtUnmount, envVars, ffVars>>
    /\ UNCHANGED <<job, totalFrames, worker, workerIn, workerOut, recorder,
                   audioContext, audioSourceNode, audioStream, tracks, videoClone>>

\* Mutant of Finish: recordingPromise is not awaited; the download is made
\* from the chunks gathered so far as soon as stop() was called.
FinishWithoutOnStop(stopOk) ==
    /\ pc = "finish"
    /\ IF ~stopOk
       THEN /\ thrown' = "recorderStop"
            /\ pc' = "catch"
            /\ UNCHANGED <<recorder, audioSourceNode, audioContext, download,
                           artifactUrl>>
       ELSE /\ recorder' = "stopping"
            /\ IF audioSourceNode # "null" /\ audioContext # "null"
               THEN /\ audioSourceNode' = "stopped"
                    /\ audioContext' = "closed"
               ELSE UNCHANGED <<audioSourceNode, audioContext>>
            /\ artifactUrl' = TRUE
            /\ download' = IF DownloadRefSet
                           THEN DownloadName(job.filter, job.resolution, job.fps,
                                             job.format)
                           ELSE download
            /\ pc' = "stopping"
            /\ UNCHANGED thrown
    /\ UNCHANGED <<uiVars, exporting, exportProgress, seeksAtUnmount, envVars, ffVars>>
    /\ UNCHANGED <<job, i, totalFrames, worker, workerIn, workerOut,
                   audioStream, tracks, videoClone>>
    /\ UNCHANGED <<emitted, seeks, broke, pushed, audioError, outcome, runs>>

\* After the loop: mediaRecorder.stop() (stopOk: it does not throw), then
\* the audio source is stopped and its context closed.
Finish(stopOk) ==
    /\ pc = "finish"
    /\ IF ~stopOk
       THEN /\ thrown' = "recorderStop"
            /\ pc' = "catch"
            /\ UNCHANGED <<recorder, audioSourceNode, audioContext>>
       ELSE /\ recorder' = "stopping"
            /\ IF audioSourceNode # "null" /\ audioContext # "null"
               THEN /\ audioSourceNode' = "stopped"
                    /\ audioContext' = "closed"
               ELSE UNCHANGED <<audioSourceNode, audioContext>>
            /\ pc' = "stopping"
            /\ UNCHANGED thrown
    /\ UNCHANGED <<uiVars, exporting, exportProgress, seeksAtUnmount, envVars, ffVars>>
    /\ UNCHANGED <<job, i, totalFrames, worker, workerIn, workerOut,
                   audioStream, tracks, videoClone>>
    /\ UNCHANGED <<emitted, seeks, broke, pushed, audioError, outcome, download,
                   artifactUrl, runs>>

\* mediaRecorder.onstop: the blob's URL resolves recordingPromise, and the
\* call goes on to the download.
RecorderOnStop ==
    /\ pc = "stopping"
    /\ lost # "onstop"
    /\ recorder' = "inactive"
    /\ artifactUrl' = TRUE
    /\ IF DownloadRefSet
       THEN /\ download' = DownloadName(job.filter, job.resolution, job.fps, job.format)
            /\ outcome' = "complete"
       ELSE /\ outcome' = "unmounted"
            /\ UNCHANGED download
    /\ videoClone' = "removed"
    /\ pc' = "finally"
    /\ UNCHANGED <<uiVars, exporting, exportProgress, seeksAtUnmount, envVars, ffVars>>
    /\ UNCHANGED <<job, i, totalFrames, worker, workerIn, workerOut,
                   audioContext, audioSourceNode, audioStream, tracks>>
    /\ UNCHANGED <<emitted, seeks, broke, pushed, audioError, thrown, runs>>

\* catch (error): 'Export failed' is reported.
Catch ==
    /\ pc = "catch"
    /\ outcome' = "failed"
    /\ pc' = "finally"
    /\ UNCHANGED <<uiVars, exporting, exportProgress, seeksAtUnmount, envVars, ffVars>>
    /\ UNCHANGED <<job, i, totalFrames, worker, workerIn, workerOut, recorder,
                   audioContext, audioSourceNode, audioStream, tracks, videoClone>>
    /\ UNCHANGED <<emitted, seeks, broke, pushed, audioError, thrown, download,
                   artifactUrl, runs>>

\* Mutant of Finally: the worker is not terminated.
FinallyKeepsWorker ==
    /\ pc = "finally"
    /\ exporting' = FALSE
    /\ exportProgress' = NullProgress
    /\ workerIn' = NoFrame
    /\ workerOut' = NoFrame
    /\ pc' = "done"
    /\ UNCHANGED <<uiVars, obsVars, seeksAtUnmount, envVars, ffVars>>
    /\ UNCHANGED <<job, i, totalFrames, worker, recorder, audioContext,
                   audioSourceNode, audioStream, tracks, videoClone>>

\* finally
Finally ==
    /\ pc = "finally"
    /\ exporting' = FALSE
    /\ exportProgress' = NullProgress
    /\ worker' = "terminated"
    /\ workerIn' = NoFrame
    /\ workerOut' = NoFrame
    /\ pc' = "done"
    /\ UNCHANGED <<uiVars, obsVars, seeksAtUnmount, envVars, ffVars>>
    /\ UNCHANGED <<job, i, totalFrames, recorder, audioContext, audioSourceNode,
                   audioStream, tracks, videoClone>>

\* A continuation of the exportVideo call: the step it takes when what it
\* awaits is delivered, or the next part of its synchronous run.
ExportStep ==
    \/ FetchDone
    \/ BufferDone
    \/ \E w \in WiringSteps \cup {"none"} : DecodeDone(w)
    \/ AudioRejected
    \/ \E supported \in BOOLEAN : RecordSetup(supported)
    \/ LoopTop
    \/ Seeked
    \/ WorkerReply
    \/ TimerFired
    \/ \E stopOk \in BOOLEAN : Finish(stopOk)
    \/ RecorderOnStop
    \/ Catch
    \/ Finally

\* ---------------------------------------------------------- the environment
\* Wall-clock time passes while the call is suspended: the AudioBufferSourceNode
\* started after mediaRecorder.start() plays its buffer in real time into the
\* recorded stream, whatever the frame loop is doing.
Tick ==
    /\ audioSourceNode = "started"
    /\ pc \notin SyncPcs
    /\ elapsed < MaxElapsed
    /\ elapsed' = elapsed + 1
    /\ UNCHANGED <<lost, seekedQueued, seekListeners, ffVars>>
    /\ UNCHANGED <<uiVars, exporting, exportProgress, jobVars, obsVars,
                   seeksAtUnmount>>

\* The seek the loop awaits fails: the cloned element raises 'error' (or was
\* given its currentTime before it could seek) and delivers no 'seeked'.  The
\* call listens for 'seeked' alone.
SeekLost ==
    /\ pc = "seeking"
    /\ lost = "none"
    /\ lost' = "seeked"
    /\ seekedQueued' = FALSE
    /\ UNCHANGED <<elapsed, seekListeners, ffVars>>
    /\ UNCHANGED <<uiVars, exporting, exportProgress, jobVars, obsVars,
                   seeksAtUnmount>>

\* self.onmessage of the filter worker throws (getContext returns null,
\* createImageBitmap rejects): the request is consumed and nothing is
\* posted.  The main thread sets worker.onmessage alone, no onerror.
WorkerThrows ==
    /\ worker = "running"
    /\ workerIn # NoFrame
    /\ lost = "none"
    /\ workerIn' = NoFrame
    /\ lost' = "reply"
    /\ UNCHANGED <<elapsed, seekedQueued, seekListeners, ffVars>>
    /\ UNCHANGED <<uiVars, exporting, exportProgress, obsVars, seeksAtUnmount>>
    /\ UNCHANGED <<pc, job, i, totalFrames, worker, workerOut, recorder,
                   audioContext, audioSourceNode, audioStream, tracks, videoClone>>

\* The recorder never fires onstop after mediaRecorder.stop().
StopLost ==
    /\ pc = "stopping"
    /\ lost = "none"
    /\ lost' = "onstop"
    /\ UNCHANGED <<elapsed, seekedQueued, seekListeners, ffVars>>
    /\ UNCHANGED <<uiVars, exporting, exportProgress, jobVars, obsVars,
                   seeksAtUnmount>>

\* ------------------------------------------------------------ specification
Next ==
    \/ \E file \in Sources : handleUpload(file)
    \/ handleVideoLoaded
    \/ \E f \in Filters : setFilter(f)
    \/ \E r \in Resolutions : setResolution(r)
    \/ \E n \in FpsOptions : setFps(n)
    \/ \E m \in Formats : setFormat(m)
    \/ Unmount
    \/ \E ctx2d \in BOOLEAN, audioCtxOk \in BOOLEAN, tieUp \in BOOLEAN :
           ExportStart(ctx2d, audioCtxOk, tieUp)
    \/ FetchDone
    \/ BufferDone
    \/ \E w \in WiringSteps \cup {"none"} : DecodeDone(w)
    \/ AudioRejected
    \/ \E supported \in BOOLEAN : RecordSetup(supported)
    \/ LoopTop
    \/ Seeked
    \/ WorkerHandle
    \/ WorkerReply
    \/ TimerFired
    \/ \E stopOk \in BOOLEAN : Finish(stopOk)
    \/ RecorderOnStop
    \/ Catch
    \/ Finally
    \/ SeekLost
    \/ WorkerThrows
    \/ StopLost

Spec == Init /\ [][Next]_vars

\* The frame loop on longer sources.  InitFrames is the state an export is
\* in when it reaches the recorder setup after: one upload of a 16:9 file of
\* duration dur / DurDen, its loadedmetadata, the FPS picker set to rate,
\* Export Video clicked, and new AudioContext() throwing.
InitFrames ==
    \E dur \in 0 .. MaxLoopDur, rate \in FpsOptions :
        /\ videoFile = 1
        /\ src = [dur |-> dur, dims |-> <<16, 9>>]
        /\ loaded = TRUE
        /\ filter = "none"
        /\ resolution = "720p"
        /\ fps = rate
        /\ format = "webm"
        /\ videoWidth = 16
        /\ videoHeight = 9
        /\ exporting = TRUE
        /\ exportProgress = <<0, 1>>
        /\ mounted = TRUE
        /\ exportWorkerRef = "null"
        /\ inputs = IF rate = 30 THEN 1 ELSE 2
        /\ previewPlaying = FALSE
        /\ pc = "setup"
        /\ job = [filter |-> "none", resolution |-> "720p", fps |-> rate,
                  format |-> "webm", videoWidth |-> 16, videoHeight |-> 9,
                  width |-> getCanvasDimensions("720p", 16, 9, TRUE).width,
                  height |-> getCanvasDimensions("720p", 16, 9, TRUE).height,
                  duration |-> dur, url |-> 1]
        /\ i = 0
        /\ totalFrames = 0
        /\ worker = "running"
        /\ workerIn = NoFrame
        /\ workerOut = NoFrame
        /\ recorder = "none"
        /\ audioContext = "null"
        /\ audioSourceNode = "null"
        /\ audioStream = FALSE
        /\ tracks = {}
        /\ videoClone = "created"
        /\ emitted = <<<<0, 1>>>>
        /\ seeks = <<>>
        /\ broke = FALSE
        /\ pushed = <<>>
        /\ audioError = "context"
        /\ thrown = "none"
        /\ outcome = "none"
        /\ download = ""
        /\ artifactUrl = FALSE
        /\ seeksAtUnmount = -1
        /\ runs = 1
        /\ elapsed = 0
        /\ lost = "none"
        /\ seekedQueued = FALSE
        /\ seekListeners = 0
        /\ FfmpegIdle

NextFrames ==
    \/ RecordSetup(TRUE)
    \/ LoopTop
    \/ Seeked
    \/ WorkerHandle
    \/ WorkerReply
    \/ TimerFired
    \/ Finish(TRUE)
    \/ RecorderOnStop
    \/ Finally

SpecFrames == InitFrames /\ [][NextFrames]_vars

\* The frame loop against the wall clock, for a source with an audio track.
\* InitTimeline is the state an export is in when it reaches the recorder
\* setup after: one upload of a 16:9 file of duration dur / DurDen, its
\* loadedmetadata, the FPS picker set to rate, Export Video clicked, and the
\* audio fetched, decoded and wired to its MediaStreamDestination.
InitTimeline ==
    \E dur \in 0 .. MaxLoopDur, rate \in FpsOptions :
        /\ videoFile = 1
        /\ src = [dur |-> dur, dims |-> <<16, 9>>]
        /\ loaded = TRUE
        /\ filter = "none"
        /\ resolution = "720p"
        /\ fps = rate
        /\ format = "webm"
        /\ videoWidth = 16
        /\ videoHeight = 9
        /\ exporting = TRUE
        /\ exportProgress = <<0, 1>>
        /\ mounted = TRUE
        /\ exportWorkerRef = "null"
        /\ inputs = IF rate = 30 THEN 1 ELSE 2
        /\ previewPlaying = FALSE
        /\ pc = "setup"
        /\ job = [filter |-> "none", resolution |-> "720p", fps |-> rate,
                  format |-> "webm", videoWidth |-> 16, videoHeight |-> 9,
                  width |-> getCanvasDimensions("720p", 16, 9, TRUE).width,
                  height |-> getCanvasDimensions("720p", 16, 9, TRUE).height,
                  duration |-> dur, url |-> 1]
        /\ i = 0
        /\ totalFrames = 0
        /\ worker = "running"
        /\ workerIn = NoFrame
        /\ workerOut = NoFrame
        /\ recorder = "none"
        /\ audioContext = "running"
        /\ audioSourceNode = "created"
        /\ audioStream = TRUE
        /\ tracks = {}
        /\ videoClone = "created"
        /\ emitted = <<<<0, 1>>>>
        /\ seeks = <<>>
        /\ broke = FALSE
        /\ pushed = <<>>
        /\ audioError = "none"
        /\ thrown = "none"
        /\ outcome = "none"
        /\ download = ""
        /\ artifactUrl = FALSE
        /\ seeksAtUnmount = -1
        /\ runs = 1
        /\ elapsed = 0
        /\ lost = "none"
        /\ seekedQueued = FALSE
        /\ seekListeners = 0
        /\ FfmpegIdle

NextTimeline ==
    \/ RecordSetup(TRUE)
    \/ LoopTop
    \/ Seeked
    \/ WorkerHandle
    \/ WorkerReply
    \/ TimerFired
    \/ Tick
    \/ Finish(TRUE)
    \/ RecorderOnStop
    \/ Finally

SpecTimeline == InitTimeline /\ [][NextTimeline]_vars

\* Exports whose awaited events are all delivered.  InitLive is the state of
\* the component after one upload of a 16:9 file (of duration dur / DurDen,
\* or unreadable), its loadedmetadata, and the FPS picker set to rate; the
\* user then only clicks Export Video or leaves the page.
InitLive ==
    \E dur \in {NaN} \cup (0 .. MaxLoopDur), rate \in FpsOptions :
        /\ videoFile = 1
        /\ src = IF dur = NaN THEN Unreadable ELSE [dur |-> dur, dims |-> <<16, 9>>]
        /\ loaded = (dur # NaN)
        /\ filter = "none"
        /\ resolution = "720p"
        /\ fps = rate
        /\ format = "webm"
        /\ videoWidth = 16
        /\ videoHeight = 9
        /\ exporting = FALSE
        /\ exportProgress = NullProgress
        /\ mounted = TRUE
        /\ exportWorkerRef = "null"
        /\ inputs = MaxInputs
        /\ previewPlaying = FALSE
        /\ pc = "idle"
        /\ job = NoJob
        /\ i = 0
        /\ totalFrames = 0
        /\ worker = "none"
        /\ workerIn = NoFrame
        /\ workerOut = NoFrame
        /\ recorder = "none"
        /\ audioContext = "null"
        /\ audioSourceNode = "null"
        /\ audioStream = FALSE
        /\ tracks = {}
        /\ videoClone = "none"
        /\ emitted = <<>>
        /\ seeks = <<>>
        /\ broke = FALSE
        /\ pushed = <<>>
        /\ audioError = "none"
        /\ thrown = "none"
        /\ outcome = "none"
        /\ download = ""
        /\ artifactUrl = FALSE
        /\ seeksAtUnmount = -1
        /\ runs = 0
        /\ elapsed = 0
        /\ lost = "none"
        /\ seekedQueued = FALSE
        /\ seekListeners = 0
        /\ FfmpegIdle

NextLive ==
    \/ \E ctx2d \in BOOLEAN, audioCtxOk \in BOOLEAN, tieUp \in BOOLEAN :
           ExportStart(ctx2d, audioCtxOk, tieUp)
    \/ FetchDone
    \/ BufferDone
    \/ \E w \in WiringSteps \cup {"none"} : DecodeDone(w)
    \/ AudioRejected
    \/ \E supported \in BOOLEAN : RecordSetup(supported)
    \/ LoopTop
    \/ Seeked
    \/ WorkerHandle
    \/ WorkerReply
    \/ TimerFired
    \/ \E stopOk \in BOOLEAN : Finish(stopOk)
    \/ RecorderOnStop
    \/ Catch
    \/ Finally
    \/ Unmount

\* Fairness: a continuation of the call runs once what it awaits has been
\* delivered (the event loop runs every queued task), and the filter worker
\* handles the message it was posted.
SpecLive ==
    /\ InitLive
    /\ [][NextLive]_vars
    /\ WF_vars(ExportStep)
    /\ WF_vars(WorkerHandle)

\* The frame loop while the user plays and pauses the preview and uploads
\* other files, from the states of InitFrames.
NextPreview ==
    \/ RecordSetup(TRUE)
    \/ LoopTop
    \/ Seeked
    \/ WorkerHandle
    \/ WorkerReply
    \/ TimerFired
    \/ Finish(TRUE)
    \/ RecorderOnStop
    \/ Finally
    \/ togglePlayPreview
    \/ PreviewEnded
    \/ \E file \in Sources : handleUpload(file)
    \/ handleVideoLoaded

SpecPreview == InitFrames /\ [][NextPreview]_vars

\* ------------------------------------------------------- helpers of claims
\* Fractions <<num, den>> with den > 0, compared by cross-multiplication.
FracLeq(a, b) == a[1] * b[2] <= b[1] * a[2]
IsHundred(a) == a[1] = 100 * a[2]

\* The recorder was constructed and started: totalFrames is computed.
LoopEntered == recorder # "none"
\* The frame loop has been left.
LoopLeft == LoopEntered /\ pc \in {"finish", "stopping", "catch", "finally", "done"}

\* --------------------------------------------------------------------- C1
\* C1: for fps > 0 and duration > 0, totalFrames is the least integer that is
\* at least duration * fps; every frame whose seek is requested has a
\* timestamp index / fps <= duration; the loop is never left through its
\* break, and once it is left exactly totalFrames seeks were requested, for
\* the indices 0 .. totalFrames - 1.
C1_FrameCount ==
    (LoopEntered /\ job.duration > 0) =>
        /\ totalFrames * DurDen >= job.duration * job.fps
        /\ (totalFrames - 1) * DurDen < job.duration * job.fps
        /\ \A k \in DOMAIN seeks :
               /\ seeks[k] = k - 1
               /\ seeks[k] * DurDen <= job.duration * job.fps
        /\ Len(seeks) <= totalFrames
        /\ ~broke
        /\ LoopLeft => Len(seeks) = totalFrames

\* An export at 30 FPS of a source of 5/60 s (duration * fps = 2.5) has left
\* its loop after three frames.
C1_Witness ==
    /\ LoopLeft
    /\ job.duration * job.fps = 5 * 30
    /\ job.duration * job.fps > 2 * DurDen
    /\ totalFrames = 3
    /\ Len(seeks) = totalFrames

\* --------------------------------------------------------------------- C2
\* C2: every numeric value passed to setExportProgress during one export lies
\* in [0, 100], and each value is at least the one emitted before it.
C2_ProgressBounded ==
    /\ \A k \in DOMAIN emitted :
           /\ emitted[k][2] > 0
           /\ emitted[k][1] >= 0
           /\ emitted[k][1] <= 100 * emitted[k][2]
    /\ \A k \in 1 .. Len(emitted) - 1 : FracLeq(emitted[k], emitted[k + 1])

\* The initial 0 and three or more per-frame values were emitted, each
\* above the one before, the last one 100.
C2_Witness ==
    /\ Len(emitted) >= 4
    /\ emitted[1] = <<0, 1>>
    /\ \A k \in 1 .. Len(emitted) - 1 : ~FracLeq(emitted[k + 1], emitted[k])
    /\ IsHundred(emitted[Len(emitted)])

\* --------------------------------------------------------------------- C3
\* C3 (as claimed): every export that ends successfully (recorder stopped,
\* artifact URL made, download clicked, 'Export complete' reported) has 100
\* as its last emitted progress value.
C3_FinalProgressIs100 ==
    outcome = "complete" => IsHundred(emitted[Len(emitted)])

\* --------------------------------------------------------------------- C4
\* C4 (as claimed): in a run that ends Failed (an exception reached the
\* catch block) no emitted progress value is 100.  (exportVideo has no
\* Cancelled outcome of its own: see C6.)
C4_No100WhenFailed ==
    outcome = "failed" => \A k \in DOMAIN emitted : ~IsHundred(emitted[k])

\* --------------------------------------------------------------------- C5
\* C5: frames are sampled and pushed in strictly increasing index order:
\* the seeks are requested for increasing indices, every frame put on the
\* captured canvas is a filtered frame whose seek was requested, each index
\* is pushed at most once and after every smaller pushed index.
C5_FrameOrder ==
    /\ \A a, b \in DOMAIN seeks : a < b => seeks[a] < seeks[b]
    /\ \A a, b \in DOMAIN pushed : a < b => pushed[a].index < pushed[b].index
    /\ \A a \in DOMAIN pushed :
           /\ pushed[a].filtered
           /\ pushed[a].filter = job.filter
           /\ \E k \in DOMAIN seeks : seeks[k] = pushed[a].index
    /\ Len(pushed) <= Len(seeks)
    /\ Len(seeks) <= Len(pushed) + 1

\* Two frames were pushed.
C5_Witness ==
    /\ Len(pushed) >= 2
    /\ pushed[1].index = 0
    /\ pushed[2].index = 1

\* --------------------------------------------------------------------- C6
\* C6 (as claimed): once the component has unmounted while the export is in
\* its frame loop, no further frame is sampled: no seek is requested after
\* the cancellation.
C6_NoFrameAfterCancel ==
    seeksAtUnmount >= 1 => Len(seeks) = seeksAtUnmount

\* --------------------------------------------------------------------- C7
\* Frames the loop is due to process: none when totalFrames is NaN.
FramesDue == IF totalFrames = NaN THEN 0 ELSE totalFrames

\* What can reach the outer catch for reasons other than the audio.
RecorderFaults == {"recorderCtor", "recorderStop"}

\* C7: when a step of the audio extraction throws, the exception does not
\* reach the outer catch, no audio stream exists and no audio track is added
\* to the recorded stream; unless the recorder itself fails, the call ends
\* with the recording's URL made and every frame due pushed.
C7_AudioFailureNotFatal ==
    audioError # "none" =>
        /\ ~audioStream
        /\ "audio" \notin tracks
        /\ thrown \in RecorderFaults \cup {"none"}
        /\ (pc = "done" /\ thrown = "none") =>
               /\ outcome \in {"complete", "unmounted"}
               /\ artifactUrl
               /\ Len(pushed) = FramesDue
        /\ (pc = "done" /\ thrown = "none" /\ mounted) => outcome = "complete"

\* decodeAudioData rejected, and the export completed with a frame pushed and
\* a video track alone.
C7_Witness ==
    /\ audioError = "decode"
    /\ outcome = "complete"
    /\ Len(pushed) >= 1
    /\ tracks = {"video"}

\* --------------------------------------------------------------------- C8
\* C8 (as claimed): an export whose frame loop ran no iteration ends Failed,
\* with no artifact and no download.
C8_ZeroFramesFails ==
    (pc = "done" /\ LoopEntered /\ Len(seeks) = 0) =>
        /\ outcome = "failed"
        /\ download = ""
        /\ ~artifactUrl

\* --------------------------------------------------------------------- C9
\* The text of the FPS as the pickers offer it.
FpsText(n) ==
    CASE n = 30 -> "30" [] n = 60 -> "60" [] n = 120 -> "120"

NameStem == job.resolution \o "-" \o FpsText(job.fps) \o "fps-video." \o job.format

\* C9 (as claimed): on success the download is named
\* {filter}-{resolution}-{fps}fps-video.{format} for every filter.
C9_NameAlwaysPrefixed ==
    outcome = "complete" => download = job.filter \o "-" \o NameStem

\* C9 (amended): on success the download is named
\* {filter}-{resolution}-{fps}fps-video.{format} for the filters sepia,
\* grayscale and invert, and {resolution}-{fps}fps-video.{format} for the
\* filter none.
C9_DownloadName ==
    outcome = "complete" =>
        /\ job.filter \in {"sepia", "grayscale", "invert"} =>
               download = job.filter \o "-" \o NameStem
        /\ job.filter = "none" => download = NameStem

\* A sepia export completed.
C9_Witness ==
    /\ outcome = "complete"
    /\ job.filter = "sepia"
    /\ download = "sepia-720p-30fps-video.webm"

\* -------------------------------------------------------------------- C10
\* The aspect ratio the call read: the component's videoWidth / videoHeight,
\* 16 / 9 when that quotient is 0 or NaN.
JobAspect ==
    IF job.videoWidth = 0 \/ job.videoHeight = 0
    THEN <<16, 9>>
    ELSE <<job.videoWidth, job.videoHeight>>

AudioCovered == IF elapsed < job.duration THEN elapsed ELSE job.duration

\* C11 (as claimed): when an export completes with an audio track, the audio
\* recorded and the video recorded cover the same stretch of the source: the
\* audio played (AudioCovered / DurDen seconds) and the frames pushed
\* (Len(pushed) / fps seconds of video) differ by at most 1 / fps seconds.
C11_AudioVideoAligned ==
    (outcome = "complete" /\ "audio" \in tracks) =>
        /\ AudioCovered * job.fps - Len(pushed) * DurDen <= DurDen
        /\ Len(pushed) * DurDen - AudioCovered * job.fps <= DurDen

\* -------------------------------------------------------------------- C12
\* Requests the filter worker has been sent and the main thread has not yet
\* received the reply of.
Outstanding == {m \in {workerIn, workerOut} : m # NoFrame}

\* C12: at most one filter request is outstanding; it is the request of the
\* frame the loop is at, and the loop waits for its reply: that frame has not
\* been pushed and no further seek has been issued.  While a seek is awaited
\* no request is outstanding and every earlier frame has been pushed.
C12_OneRequestOutstanding ==
    /\ ~(workerIn # NoFrame /\ workerOut # NoFrame)
    /\ \A m \in Outstanding :
           /\ pc = "filtering"
           /\ m.index = i
           /\ Len(seeks) = i + 1
           /\ Len(pushed) = i
    /\ pc \in {"seeking", "yield", "looptop"} => Outstanding = {}
    /\ pc = "seeking" => Len(pushed) = Len(seeks) - 1
    /\ pc = "yield" => (Len(pushed) = i + 1 /\ pushed[i + 1].index = i)

\* The reply for the second frame is waiting to be received: the first frame
\* is pushed, the second is not, and no third seek was issued.
C12_Witness ==
    /\ pc = "filtering"
    /\ workerOut # NoFrame
    /\ workerOut.index = 1
    /\ Len(pushed) = 1
    /\ Len(seeks) = 2

\* -------------------------------------------------------------------- C13
\* The audio extraction is under way: its context exists, no step of it has
\* thrown, and its stream is not yet there.
AudioPending == audioContext = "running" /\ audioError = "none" /\ ~audioStream

\* C13: while the audio extraction (fetch, arrayBuffer, decodeAudioData) is
\* pending the recorder does not exist, no track has been combined and no
\* frame has been sampled or pushed; the extraction is pending exactly while
\* the call is suspended at one of its three awaits; and an audio track is
\* recorded only from a decoded buffer wired to its stream.
C13_DecodeBeforeEncode ==
    /\ AudioPending =>
           /\ recorder = "none"
           /\ tracks = {}
           /\ seeks = <<>>
           /\ pushed = <<>>
    /\ AudioPending <=> pc \in {"fetch", "arrayBuffer", "decode"}
    /\ "audio" \in tracks =>
           /\ audioStream
           /\ audioSourceNode # "null"
           /\ audioError = "none"

\* The audio was decoded, and then the recorder started with both tracks and
\* a frame was sampled.
C13_Witness ==
    /\ audioStream
    /\ tracks = {"video", "audio"}
    /\ recorder = "recording"
    /\ Len(seeks) >= 1

\* -------------------------------------------------------------------- C14
\* C14 (as claimed): after an export that ended Failed every resource of the
\* job is released: the filter worker is terminated, the cloned video is
\* removed, an audio source that was started is stopped, the audio context is
\* closed, and a recorder that was started is no longer recording.
C14_ReleasedAfterFailure ==
    (pc = "done" /\ outcome = "failed") =>
        /\ worker = "terminated"
        /\ videoClone = "removed"
        /\ audioSourceNode # "started"
        /\ audioContext \in {"null", "closed"}
        /\ recorder # "recording"

\* -------------------------------------------------------------------- C15
\* C15 (as claimed): when the filter worker's handler has thrown on a frame
\* and posted no reply, the export is not left waiting for that reply: it
\* has ended Failed (with exporting false and the worker terminated once the
\* call is over), or it has a step to take.
C15_WorkerFailureFails ==
    lost = "reply" =>
        \/ /\ outcome = "failed"
           /\ pc = "done" => (~exporting /\ worker = "terminated")
        \/ /\ outcome = "none"
           /\ ENABLED ExportStep

\* -------------------------------------------------------------------- C16
\* C16 (as claimed): when the seek of a frame delivers no 'seeked', the
\* export goes on: for the first frame it ends Failed, for a later frame it
\* skips the frame and has a step to take towards the next index.
C16_SeekFailureSkipped ==
    lost = "seeked" =>
        IF i = 0
        THEN outcome = "failed" \/ (outcome = "none" /\ ENABLED ExportStep)
        ELSE outcome # "failed" /\ (pc = "seeking" => ENABLED ExportStep)

\* -------------------------------------------------------------------- C17
\* C17: the recording's URL exists, and the download link is set and
\* clicked, only after the frame loop was left, mediaRecorder.stop() was
\* called and onstop has fired, in a call that threw nothing; a call that
\* ended through an exception or an early return has made no URL and no
\* download.
C17_ArtifactOnlyAfterOnStop ==
    /\ (artifactUrl \/ download # "") =>
           /\ LoopLeft
           /\ recorder = "inactive"
           /\ pc \in {"finally", "done"}
           /\ thrown = "none"
           /\ outcome \in {"complete", "unmounted"}
    /\ download # "" => (artifactUrl /\ outcome = "complete")
    /\ outcome \in {"failed", "returned"} => (~artifactUrl /\ download = "")
    /\ recorder \in {"recording", "stopping"} => (~artifactUrl /\ download = "")

\* An export with a frame pushed has handed its download over, the recorder
\* inactive.
C17_Witness ==
    /\ outcome = "complete"
    /\ download # ""
    /\ artifactUrl
    /\ recorder = "inactive"
    /\ Len(pushed) >= 1

\* -------------------------------------------------------------------- C18
\* An exportVideo call has started and has not yet run its finally block.
InFlight == pc \notin {"idle", "done"}

\* A click on Export Video that starts a call.
ExportClick ==
    \E ctx2d \in BOOLEAN, audioCtxOk \in BOOLEAN, tieUp \in BOOLEAN :
        ExportStart(ctx2d, audioCtxOk, tieUp)

Captured == Outstanding \cup {pushed[k] : k \in DOMAIN pushed}

SuspendedAt ==
    CASE lost = "seeked" -> pc = "seeking"
      [] lost = "reply" -> pc = "filtering" /\ Outstanding = {}
      [] lost = "onstop" -> pc = "stopping"
      [] OTHER -> FALSE

\* C20: once a seek, a worker round trip or a recorder stop will never
\* complete, the call is suspended at that await and stays there: it has no
\* step to take and no click can start another call, it has no outcome and
\* has not run its finally block, exporting is true with a numeric progress,
\* and the filter worker is running; and the lost event stays lost.
C20_SuspendedForever ==
    /\ [](lost # "none" =>
              /\ SuspendedAt
              /\ ~ENABLED ExportStep
              /\ ~ENABLED ExportClick
              /\ outcome = "none"
              /\ exporting
              /\ exportProgress # NullProgress
              /\ worker = "running")
    /\ [][lost # "none" => (lost' = lost /\ pc' = pc)]_vars

\* The export is suspended on the recorder's stop with a frame pushed, and
\* the component has unmounted since.
C20_Witness ==
    /\ lost = "onstop"
    /\ pc = "stopping"
    /\ Len(pushed) >= 1
    /\ ~mounted
    /\ exporting

\* -------------------------------------------------------------------- C21
\* C21: the configuration of an export is the one of the click: every frame
\* captured carries the filter, width and height of the job, the size is
\* the one of the job's resolution, the frame count and the seeks are those
\* of the job's fps, and the download is named after the job's filter,
\* resolution, fps and format, whatever the pickers show by then.
C21_ConfigFixed ==
    /\ \A m \in Captured :
           /\ m.filter = job.filter
           /\ m.width = job.width
           /\ m.height = job.height
    /\ runs > 0 => job.height = CanvasHeight(job.resolution)
    /\ LoopEntered =>
           /\ totalFrames = TotalFrames(job.duration, job.fps)
           /\ \A k \in DOMAIN seeks : seeks[k] = k - 1
    /\ download # "" =>
           download = DownloadName(job.filter, job.resolution, job.fps, job.format)

\* The filter picker was changed while the export ran; its frame was pushed
\* with the filter of the click and the recorder is being stopped.
C21_Witness ==
    /\ pc = "stopping"
    /\ filter # job.filter
    /\ Len(pushed) >= 1
    /\ pushed[1].filter = job.filter

\* -------------------------------------------------------------------- C22
\* C22: when an exportVideo call that set exporting to true is over, by
\* success, by a caught exception or by an early return, exporting is false,
\* exportProgress is null and the call's filter worker is terminated.
C22_ExitResets ==
    pc = "done" =>
        /\ outcome \in {"complete", "unmounted", "failed", "returned"}
        /\ ~exporting
        /\ exportProgress = NullProgress
        /\ worker = "terminated"
        /\ Outstanding = {}

\* A call has left through the early return for a missing 2D context.
C22_Witness ==
    /\ pc = "done"
    /\ outcome = "returned"
    /\ recorder = "none"
    /\ worker = "terminated"
    /\ ~exporting

\* ================================================== the ffmpeg revision
\* The revision of the component that hands the whole file to a worker
\* running ffmpeg (video-edit.tsx lines 604-974, lib/ffmpeg.worker.ts).  It
\* has the state videoFile, filter, processing, progress, filteredVideoUrl;
\* the canvas revision's other variables stay as they are.
canvasVars == <<src, loaded, resolution, fps, format, videoWidth, videoHeight,
                mounted, exportWorkerRef, inputs, previewPlaying, exporting,
                exportProgress, jobVars, obsVars, seeksAtUnmount, envVars>>

\* The fractions ffmpeg reports in a 'progress' event.
ProgressFractions == {0, 1}

\* handleUpload of the ffmpeg revision: a file is picked.
handleUploadFfmpeg ==
    /\ uploads < MaxUploads
    /\ uploads' = uploads + 1
    /\ videoFile' = uploads + 1
    /\ filteredVideoUrl' = NoUrl
    /\ progress' = NoProgress
    /\ processing' = FALSE
    /\ UNCHANGED <<filter, readers, workerQueue, opQueue, ffmpegLoaded, inputMp4,
                   outputMp4, progressListeners, mainQueue, jobsStarted>>
    /\ UNCHANGED canvasVars

\* onValueChange of the filter Select.
setFilterFfmpeg(f) ==
    /\ videoFile # 0
    /\ f # filter
    /\ filter' = f
    /\ UNCHANGED <<videoFile, ffVars, canvasVars>>

\* The Apply Filter button: disabled={processing}.
ApplyDisabled == processing

\* applyFilterEffect: the click starts a FileReader on the current file; the
\* reader's onload closes over the filter of the click.
applyFilterEffect ==
    /\ ~ApplyDisabled
    /\ videoFile # 0
    /\ jobsStarted < MaxJobs
    /\ jobsStarted' = jobsStarted + 1
    /\ processing' = TRUE
    /\ readers' = Append(readers, [job |-> jobsStarted + 1, file |-> videoFile,
                                   filter |-> filter])
    /\ UNCHANGED <<videoFile, filter, progress, filteredVideoUrl, workerQueue,
                   opQueue, ffmpegLoaded, inputMp4, outputMp4, progressListeners,
                   mainQueue, uploads>>
    /\ UNCHANGED canvasVars

\* The sequence q without its k-th element.
RemoveAt(q, k) == SubSeq(q, 1, k - 1) \o SubSeq(q, k + 1, Len(q))

\* A FileReader finishes: reader.onload posts {file, filter} to the worker.
\* Readers of different clicks finish in any order.
ReaderLoaded(k) ==
    /\ k \in DOMAIN readers
    /\ readers' = RemoveAt(readers, k)
    /\ workerQueue' = Append(workerQueue, readers[k])
    /\ UNCHANGED <<videoFile, filter, processing, progress, filteredVideoUrl,
                   opQueue, ffmpegLoaded, inputMp4, outputMp4, progressListeners,
                   mainQueue, jobsStarted, uploads>>
    /\ UNCHANGED canvasVars

\* The worker's 'message' listener is called: it runs up to its first await,
\* whatever earlier invocations are still awaiting.
WorkerReceive ==
    /\ workerQueue # <<>>
    /\ workerQueue' = Tail(workerQueue)
    /\ opQueue' = Append(opQueue,
                         [job |-> Head(workerQueue).job,
                          file |-> Head(workerQueue).file,
                          filter |-> Head(workerQueue).filter,
                          op |-> IF ffmpegLoaded THEN "writeFile" ELSE "load",
                          events |-> 0])
    /\ UNCHANGED <<videoFile, filter, processing, progress, filteredVideoUrl,
                   readers, ffmpegLoaded, inputMp4, outputMp4, progressListeners,
                   mainQueue, jobsStarted, uploads>>
    /\ UNCHANGED canvasVars

\* The invocation h goes on to its next ffmpeg call.
Awaiting(h, call) == [h EXCEPT !.op = call]

\* The ffmpeg call at the head of the queue settles and the invocation that
\* awaits it runs to its next await.  ffmpeg serves its calls in order.
\* ~ok: the call rejects; the listener has no try/catch, so the invocation
\* ends there and posts nothing.
OpDone(ok) ==
    /\ opQueue # <<>>
    /\ LET h == Head(opQueue)
       IN IF ~ok
          THEN /\ opQueue' = Tail(opQueue)
               /\ UNCHANGED <<ffmpegLoaded, inputMp4, outputMp4, progressListeners,
                              mainQueue>>
          ELSE CASE h.op = "load" ->
                      /\ ffmpegLoaded' = TRUE
                      /\ opQueue' = Append(Tail(opQueue), Awaiting(h, "writeFile"))
                      /\ UNCHANGED <<inputMp4, outputMp4, progressListeners,
                                     mainQueue>>
                 [] h.op = "writeFile" ->
                      \* input.mp4 written; ffmpeg.on('progress', ...); exec
                      /\ inputMp4' = h.file
                      /\ progressListeners' = progressListeners + 1
                      /\ opQueue' = Append(Tail(opQueue), Awaiting(h, "exec"))
                      /\ UNCHANGED <<ffmpegLoaded, outputMp4, mainQueue>>
                 [] h.op = "exec" ->
                      /\ outputMp4' = [file |-> inputMp4, filter |-> h.filter]
                      /\ opQueue' = Append(Tail(opQueue), Awaiting(h, "readFile"))
                      /\ UNCHANGED <<ffmpegLoaded, inputMp4, progressListeners,
                                     mainQueue>>
                 [] h.op = "readFile" ->
                      \* self.postMessage({url, progress: 100})
                      /\ mainQueue' = Append(mainQueue,
                                             [progress |-> 100,
                                              url |-> [job |-> h.job,
                                                       file |-> outputMp4.file,
                                                       filter |-> outputMp4.filter]])
                      /\ opQueue' = Tail(opQueue)
                      /\ UNCHANGED <<ffmpegLoaded, inputMp4, outputMp4,
                                     progressListeners>>
    /\ UNCHANGED <<videoFile, filter, processing, progress, filteredVideoUrl,
                   readers, workerQueue, jobsStarted, uploads>>
    /\ UNCHANGED canvasVars

\* ffmpeg emits 'progress' during the exec it is running: every registered
\* callback posts {progress} to the main thread.
ProgressEvent(p) ==
    /\ opQueue # <<>>
    /\ Head(opQueue).op = "exec"
    /\ Head(opQueue).events < MaxProgressEvents
    /\ opQueue' = [opQueue EXCEPT ![1].events = @ + 1]
    /\ mainQueue' = mainQueue \o [k \in 1 .. progressListeners |->
                                    [progress |-> p, url |-> NoUrl]]
    /\ UNCHANGED <<videoFile, filter, processing, progress, filteredVideoUrl,
                   readers, workerQueue, ffmpegLoaded, inputMp4, outputMp4,
                   progressListeners, jobsStarted, uploads>>
    /\ UNCHANGED canvasVars

\* workerRef.current.onmessage on the main thread.
MainOnMessage ==
    /\ mainQueue # <<>>
    /\ mainQueue' = Tail(mainQueue)
    /\ LET m == Head(mainQueue)
       IN IF m.url # NoUrl
          THEN /\ filteredVideoUrl' = m.url
               /\ processing' = FALSE
               /\ progress' = NoProgress
          ELSE /\ progress' = m.progress * 100
               /\ UNCHANGED <<filteredVideoUrl, processing>>
    /\ UNCHANGED <<videoFile, filter, readers, workerQueue, opQueue, ffmpegLoaded,
                   inputMp4, outputMp4, progressListeners, jobsStarted, uploads>>
    /\ UNCHANGED canvasVars

\* A step of the machinery behind a click: a reader, the worker, ffmpeg, the
\* main thread's message handler.
FfmpegStep ==
    \/ \E k \in DOMAIN readers : ReaderLoaded(k)
    \/ WorkerReceive
    \/ \E ok \in BOOLEAN : OpDone(ok)
    \/ \E p \in ProgressFractions : ProgressEvent(p)
    \/ MainOnMessage

NextFfmpeg ==
    \/ handleUploadFfmpeg
    \/ \E f \in Filters : setFilterFfmpeg(f)
    \/ applyFilterEffect
    \/ \E k \in 1 .. MaxJobs : ReaderLoaded(k)
    \/ WorkerReceive
    \/ \E ok \in BOOLEAN : OpDone(ok)
    \/ \E p \in ProgressFractions : ProgressEvent(p)
    \/ MainOnMessage

\* Fairness: readers finish, queued messages are handled and ffmpeg calls
\* settle (with either result); the user's clicks are under no obligation.
SpecFfmpeg ==
    /\ Init
    /\ [][NextFfmpeg]_vars
    /\ WF_vars(FfmpegStep)

C24_SeekedHeard ==
    /\ seekListeners \in {0, 1}
    /\ seekedQueued => (seekListeners = 1 /\ pc = "seeking")
    /\ (pc = "seeking" /\ lost # "seeked") => seekedQueued
    /\ pc \in {"looptop", "filtering", "yield"} => seekListeners = 0

\* The second seek is under way with its listener, the first one heard.
C24_Witness ==
    /\ pc = "seeking"
    /\ Len(seeks) = 2
    /\ seekedQueued
    /\ seekListeners = 1
    /\ Len(pushed) = 1

\* -------------------------------------------------------------------- C25
\* C25: at most one invocation of the worker's message listener is under way
\* at a time, so an invocation that awaits exec finds in input.mp4 the file
\* it wrote and one that awaits readFile finds in output.mp4 the output made
\* from its own file with its own filter.
C25_OneJobInHandler ==
    /\ Len(opQueue) <= 1
    /\ \A k \in DOMAIN opQueue :
          /\ opQueue[k].op = "exec" => inputMp4 = opQueue[k].file
          /\ opQueue[k].op = "readFile" =>
                outputMp4 = [file |-> opQueue[k].file, filter |-> opQueue[k].filter]

\* -------------------------------------------------------------------- C26
\* C26: a filteredVideoUrl that is not null names the result of processing
\* the file that is selected now.
C26_ResultOfCurrentFile ==
    filteredVideoUrl # NoUrl => filteredVideoUrl.file = videoFile

\* -------------------------------------------------------------------- C27
\* C27: processing does not stay true for ever: whenever it is true it is
\* false again later, also after a call of the worker has failed.
C27_ProcessingEnds == processing ~> ~processing

\* -------------------------------------------------------------------- C28
\* C28: ffmpeg has at most one 'progress' callback registered, and each
\* 'progress' event adds exactly one message to those posted to the main
\* thread.
ProgressStep == \E p \in ProgressFractions : ProgressEvent(p)

C28_OneMessagePerEvent ==
    /\ [](progressListeners <= 1)
    /\ [][ProgressStep => Len(mainQueue') = Len(mainQueue) + 1]_vars

====
